---- MODULE Spec2Model ----
(***************************************************************************)
(* Model of uniFinance's training utility:                                 *)
(*   projeto/src/data/data_load.py   DataLoad.load_data                    *)
(*   projeto/src/train/train.py      TrainModels.get_best_model / run      *)
(* The MLflow tracking store (runs), the model registry (versions, alias)  *)
(* and the per-process fluent "active run" are the state; every Trainer is  *)
(* one process calling run().  Metrics are in hundredths.                  *)
(***************************************************************************)
EXTENDS Integers, Sequences, FiniteSets, TLC

\* ---- bounds -------------------------------------------------------------
MaxHist == 2
MaxRuns == 6
MaxRows == 2

Trainers == {1, 2}
Metrics == {62, 81, 95, 100}
One == 100
NoMetric == -1
NaN == "<NaN>"

\* ---- hyperparameter strings ---------------------------------------------
BestParamCols ==
  {"class_weight", "discretizer", "warm_start", "imputer", "solver", "scaler",
   "max_iter", "fit_intercept", "tol", "multi_class", "C"}

EvalCols == {"warm_start", "imputer", "discretizer", "scaler"}

KnownSpecs ==
  {"True", "False",
   "MeanMedianImputer(variables=cols)",
   "EqualFrequencyDiscretiser(variables=cols)",
   "SklearnTransformerWrapper(StandardScaler())"}

InjectedExpr == "[__import__('os').system('id'), StandardScaler()][1]"
BrokenExpr == "StandardScaler("

\* Python expressions that compile and evaluate without raising.
Evaluable == KnownSpecs \cup {InjectedExpr}

GoodParams ==
  [class_weight |-> "balanced",
   discretizer |-> "EqualFrequencyDiscretiser(variables=cols)",
   warm_start |-> "True",
   imputer |-> "MeanMedianImputer(variables=cols)",
   solver |-> "lbfgs",
   scaler |-> "SklearnTransformerWrapper(StandardScaler())",
   max_iter |-> "100",
   fit_intercept |-> "True",
   tol |-> "0.0001",
   multi_class |-> "auto",
   C |-> "1.0"]

InjectedParams == [GoodParams EXCEPT !.scaler = InjectedExpr]
BrokenParams == [GoodParams EXCEPT !.scaler = BrokenExpr]
ParamSets == {GoodParams, InjectedParams, BrokenParams}
NoParams == [p \in BestParamCols |-> NaN]

\* eval(s): a non-string raises TypeError, an uncompilable string SyntaxError,
\* anything else is executed as code and yields its value.
Eval(s) ==
  IF s = NaN THEN [raised |-> "TypeError", ran |-> {}]
  ELSE IF s \notin Evaluable THEN [raised |-> "SyntaxError", ran |-> {}]
  ELSE [raised |-> "", ran |-> {s}]

\* int(s) / float(s) on the stored numerals.
Numeric(s) ==
  IF s \in {"100", "0.0001", "1.0"} THEN [raised |-> ""]
  ELSE [raised |-> "ValueError"]

VARIABLES
  runs,        \* tracking store: runs of experiment prob_loan, by start time
  versions,    \* registry: versions of the registered model
  alias,       \* version the alias "modelo" points at, 0 = unset
  pc,          \* per Trainer: position inside run()
  bestp,       \* per Trainer: df_best_params
  val,         \* per Trainer: val_roc_auc
  fetched,     \* per Trainer: model.latest_versions[-1].version read at 143
  active,      \* per process: fluent active run id, 0 = none
  mine,        \* per Trainer: version registered by its current run()
  err,         \* per Trainer: exception that ended its run(), "" = none
  executed,    \* strings that eval() has executed as code
  lastWriter,  \* Trainer that set the alias last, 0 = none
  fs,          \* data/raw: path -> CSV content
  columns_to_use,
  loadName,    \* argument of the last load_data call, "" = none yet
  loadRet,     \* its return value
  loadRaised,  \* exception it propagated to the caller, "" = none
  loadReads,   \* paths it handed to pd.read_csv
  loadLog      \* what it wrote to logger.error

trainVars ==
  <<runs, versions, alias, pc, bestp, val, fetched, active, mine, err,
    executed, lastWriter>>
loadVars ==
  <<fs, columns_to_use, loadName, loadRet, loadRaised, loadReads, loadLog>>
vars == <<trainVars, loadVars>>

\* ---- sequences ----------------------------------------------------------
RECURSIVE SeqsUpTo(_, _)
SeqsUpTo(S, n) ==
  IF n = 0 THEN {<<>>}
  ELSE LET shorter == SeqsUpTo(S, n - 1)
       IN shorter \cup {Append(s, x) : s \in {q \in shorter : Len(q) = n - 1},
                                       x \in S}

SetMax(S) == CHOOSE x \in S : \A y \in S : y <= x

\* ---- tracking store -----------------------------------------------------
\* A run as the store keeps it.
Run(name, metric, params, tag, status) ==
  [name |-> name, metric |-> metric, params |-> params, tag |-> tag,
   status |-> status]

HistoricalRuns ==
  {Run("search", m, p, "", "FINISHED") : m \in Metrics, p \in ParamSets}

\* The filter of line 64: a run that logged valid_roc_auc with a value < 1.
FilterRelaxed(r) == r.metric # NoMetric /\ r.metric <= One
Filter(r) == r.metric # NoMetric /\ r.metric < One

\* mlflow.search_runs(filter_string=...): the matching runs as data-frame rows,
\* newest start time first, labelled 0..n-1 in that order.
RECURSIVE Matching(_)
Matching(rs) ==
  IF rs = <<>> THEN <<>>
  ELSE LET n == Len(rs)
           rest == Matching(SubSeq(rs, 1, n - 1))
       IN IF Filter(rs[n])
          THEN <<[run_id |-> n, metric |-> rs[n].metric,
                  params |-> rs[n].params]>> \o rest
          ELSE rest

search_runs(rs) ==
  LET found == Matching(rs)
  IN [i \in 1..Len(found) |->
        [label |-> i - 1, run_id |-> found[i].run_id,
         metric |-> found[i].metric, params |-> found[i].params]]

\* sort_values("metrics.valid_roc_auc", ascending=False): rows reordered by
\* metric, descending, equal metrics keeping their order; labels travel with
\* the rows.
RECURSIVE InsertDesc(_, _)
InsertDesc(row, sorted) ==
  IF sorted = <<>> THEN <<row>>
  ELSE IF Head(sorted).metric >= row.metric
       THEN <<Head(sorted)>> \o InsertDesc(row, Tail(sorted))
       ELSE <<row>> \o sorted

RECURSIVE sort_values(_)
sort_values(df) ==
  IF df = <<>> THEN <<>>
  ELSE InsertDesc(df[Len(df)], sort_values(SubSeq(df, 1, Len(df) - 1)))

\* Series.idxmax(): label of the first row, in frame order, holding the maximum.
idxmax(df) ==
  LET top == SetMax({df[i].metric : i \in 1..Len(df)})
      first == CHOOSE i \in 1..Len(df) :
                 /\ df[i].metric = top
                 /\ \A j \in 1..(i - 1) : df[j].metric # top
  IN df[first].label

\* df.loc[label]
loc(df, label) == df[CHOOSE i \in 1..Len(df) : df[i].label = label]

\* The param columns the frame has: those some returned run recorded.
ParamColumns(df) ==
  {c \in BestParamCols : \E i \in 1..Len(df) : df[i].params[c] # NaN}

Raise(kind) ==
  [raised |-> kind, best_roc_auc |-> NoMetric, df_best_params |-> NoParams,
   run_id |-> 0]

\* TrainModels.get_best_model: what the call returns or raises.
get_best_model(rs) ==
  LET found == search_runs(rs)
  IN IF found = <<>>
     THEN Raise("KeyError")            \* no metrics.valid_roc_auc column
     ELSE LET df_mlflow == sort_values(found)
              best == loc(df_mlflow, idxmax(df_mlflow))
          IN IF ParamColumns(df_mlflow) # BestParamCols
             THEN Raise("KeyError")    \* a params.* column is missing
             ELSE [raised |-> "", best_roc_auc |-> best.metric,
                   df_best_params |-> best.params, run_id |-> best.run_id]

\* ---- model registry -----------------------------------------------------
Stages == <<"None", "Staging", "Production", "Archived">>

\* RegisteredModel.latest_versions: per stage that has versions, the newest
\* version in it.
RECURSIVE LatestOfStages(_, _)
LatestOfStages(vs, k) ==
  IF k > Len(Stages) THEN <<>>
  ELSE LET inStage == {i \in 1..Len(vs) : vs[i].stage = Stages[k]}
       IN (IF inStage = {} THEN <<>> ELSE <<vs[SetMax(inStage)]>>)
          \o LatestOfStages(vs, k + 1)

OldestVersions(vs) == IF vs = <<>> THEN <<>> ELSE <<vs[1]>>
latest_versions(vs) == LatestOfStages(vs, 1)

Last(s) == s[Len(s)]

\* ---- TrainModels.run ----------------------------------------------------
model_name == "prob_loan_model"

\* eval() of each string in turn, stopping at the first that raises.
RECURSIVE EvalAll(_)
EvalAll(strs) ==
  IF strs = <<>> THEN [raised |-> "", ran |-> {}]
  ELSE LET e == Eval(Head(strs))
           rest == EvalAll(Tail(strs))
       IN IF e.raised # "" THEN e
          ELSE [raised |-> rest.raised, ran |-> e.ran \cup rest.ran]

\* The exception a with-block body raises: the first among eval(warm_start),
\* int(max_iter), float(C), float(tol), in argument order.
FirstRaised(seq) ==
  IF \A i \in 1..Len(seq) : seq[i] = "" THEN ""
  ELSE seq[CHOOSE i \in 1..Len(seq) :
             seq[i] # "" /\ \A j \in 1..(i - 1) : seq[j] = ""]

Fail(t, e) ==
  /\ pc' = [pc EXCEPT ![t] = "failed"]
  /\ err' = [err EXCEPT ![t] = e]

\* line 96: _, df_best_params = self.get_best_model()
GetBest(t) ==
  /\ pc[t] = "idle"
  /\ LET r == get_best_model(runs)
     IN IF r.raised # ""
        THEN Fail(t, r.raised) /\ UNCHANGED bestp
        ELSE /\ bestp' = [bestp EXCEPT ![t] = r.df_best_params]
             /\ pc' = [pc EXCEPT ![t] = "start"]
             /\ UNCHANGED err
  /\ UNCHANGED <<runs, versions, alias, val, fetched, active, mine, executed,
                 lastWriter, loadVars>>

\* line 99: mlflow.start_run(run_name="final_model") refuses while the process
\* has an active run; otherwise the new run becomes the active one.
StartRun(t) ==
  /\ pc[t] = "start"
  /\ IF active[t] # 0
     THEN Fail(t, "Exception") /\ UNCHANGED <<runs, active>>
     ELSE /\ Len(runs) + 2 <= MaxRuns
          /\ runs' = Append(runs, Run("final_model", NoMetric, NoParams, "",
                                      "RUNNING"))
          /\ active' = [active EXCEPT ![t] = Len(runs) + 1]
          /\ pc' = [pc EXCEPT ![t] = "with"]
          /\ UNCHANGED err
  /\ UNCHANGED <<versions, alias, bestp, val, fetched, mine, executed,
                 lastWriter, loadVars>>

\* lines 100-110: the body of the with-block, and the block's exit, which ends
\* the run FINISHED or, on an exception, FAILED.
WithBody(t) ==
  /\ pc[t] = "with"
  /\ LET e == Eval(bestp[t].warm_start)
         raised == FirstRaised(<<e.raised, Numeric(bestp[t].max_iter).raised,
                                 Numeric(bestp[t].C).raised,
                                 Numeric(bestp[t].tol).raised>>)
         r == active[t]
     IN /\ executed' = executed \cup e.ran
        /\ runs' = [runs EXCEPT ![r].tag = model_name,
                                ![r].status = IF raised = "" THEN "FINISHED"
                                              ELSE "FAILED"]
        /\ active' = [active EXCEPT ![t] = 0]
        /\ IF raised # "" THEN Fail(t, raised)
           ELSE pc' = [pc EXCEPT ![t] = "pipe"] /\ UNCHANGED err
  /\ UNCHANGED <<versions, alias, bestp, val, fetched, mine, lastWriter,
                 loadVars>>

\* lines 112-131: the pipeline's stages are eval()-ed, the pipeline is fitted
\* and scored on the training data.
BuildFit(t) ==
  /\ pc[t] = "pipe"
  /\ LET e == EvalAll(<<bestp[t].imputer, bestp[t].discretizer,
                        bestp[t].scaler>>)
     IN /\ executed' = executed \cup e.ran
        /\ IF e.raised # "" THEN Fail(t, e.raised) /\ UNCHANGED val
           ELSE /\ \E m \in Metrics : val' = [val EXCEPT ![t] = m]
                /\ pc' = [pc EXCEPT ![t] = "logmetric"]
                /\ UNCHANGED err
  /\ UNCHANGED <<runs, versions, alias, bestp, fetched, active, mine,
                 lastWriter, loadVars>>

\* line 132: mlflow.log_metric logs to the active run and, with none active,
\* starts one first, which stays active.
LogMetric(t) ==
  /\ pc[t] = "logmetric"
  /\ IF active[t] = 0
     THEN /\ runs' = Append(runs, Run("unnamed", val[t], NoParams, "",
                                      "RUNNING"))
          /\ active' = [active EXCEPT ![t] = Len(runs) + 1]
     ELSE /\ runs' = [runs EXCEPT ![active[t]].metric = val[t]]
          /\ UNCHANGED active
  /\ pc' = [pc EXCEPT ![t] = "register"]
  /\ UNCHANGED <<versions, alias, bestp, val, fetched, mine, err, executed,
                 lastWriter, loadVars>>

\* lines 135-141: log_model with registered_model_name creates the next version
\* of the registered model, in stage "None".
LogModel(t) ==
  /\ pc[t] = "register"
  /\ versions' = Append(versions, [version |-> Len(versions) + 1,
                                   run_id |-> active[t], stage |-> "None"])
  /\ mine' = [mine EXCEPT ![t] = Len(versions) + 1]
  /\ pc' = [pc EXCEPT ![t] = "getmodel"]
  /\ UNCHANGED <<runs, alias, bestp, val, fetched, active, err, executed,
                 lastWriter, loadVars>>

\* lines 142-143 and the argument of 146: model.latest_versions[-1].version
GetModel(t) ==
  /\ pc[t] = "getmodel"
  /\ fetched' = [fetched EXCEPT ![t] = Last(latest_versions(versions)).version]
  /\ pc' = [pc EXCEPT ![t] = "setalias"]
  /\ UNCHANGED <<runs, versions, alias, bestp, val, active, mine, err,
                 executed, lastWriter, loadVars>>

\* lines 145-147: client.set_registered_model_alias(model_name, "modelo", v)
SetAlias(t) ==
  /\ pc[t] = "setalias"
  /\ alias' = fetched[t]
  /\ lastWriter' = t
  /\ pc' = [pc EXCEPT ![t] = "done"]
  /\ UNCHANGED <<runs, versions, bestp, val, fetched, active, mine, err,
                 executed, loadVars>>

Locals(t) ==
  /\ pc' = [pc EXCEPT ![t] = "idle"]
  /\ bestp' = [bestp EXCEPT ![t] = NoParams]
  /\ val' = [val EXCEPT ![t] = NoMetric]
  /\ fetched' = [fetched EXCEPT ![t] = 0]
  /\ mine' = [mine EXCEPT ![t] = 0]
  /\ err' = [err EXCEPT ![t] = ""]

\* run() has returned or raised and its caller may call it again in the same
\* process: the locals are gone, the process's active run is not.
Return(t) ==
  /\ pc[t] \in {"done", "failed"}
  /\ Locals(t)
  /\ UNCHANGED <<runs, versions, alias, active, executed, lastWriter, loadVars>>

\* The process ends (mlflow ends its active run at exit) and the module is
\* loaded in a new one (lines 19-20), with no active run.
Restart(t) ==
  /\ pc[t] \in {"done", "failed"}
  /\ active[t] # 0
  /\ Locals(t)
  /\ runs' = [runs EXCEPT ![active[t]].status = "FINISHED"]
  /\ active' = [active EXCEPT ![t] = 0]
  /\ UNCHANGED <<versions, alias, executed, lastWriter, loadVars>>

Step(t) ==
  \/ GetBest(t)
  \/ StartRun(t)
  \/ WithBody(t)
  \/ BuildFit(t)
  \/ LogMetric(t)
  \/ LogModel(t)
  \/ GetModel(t)
  \/ SetAlias(t)

\* ---- DataLoad.load_data -------------------------------------------------
None == "<None>"
Datasets ==
  [train_dataset_name |-> "train.csv", test_dataset_name |-> "test.csv"]
DatasetNames == {"train_dataset_name", "test_dataset_name", "unknown_name"}
Headers == {<<"a", "b", "c">>, <<"b", "a">>, <<"a">>}
ColumnChoices == {<<"a", "b">>, <<"b">>, <<"c", "a">>}
Cells == {0, 1}

Range(f) == {f[i] : i \in DOMAIN f}
IndexOf(seq, x) == CHOOSE i \in 1..Len(seq) : seq[i] = x

DataFrame(columns, rows) ==
  [kind |-> "DataFrame", columns |-> columns, rows |-> rows]
NoFrame == [kind |-> "None", columns |-> <<>>, rows |-> <<>>]

\* load_config_file().get(key)
ConfigGet(key) == IF key \in DOMAIN Datasets THEN Datasets[key] ELSE None

\* os.path.join(path, "data", "raw", dataset)
DataPath(dataset) == <<"data", "raw", dataset>>

\* loaded_data[columns]: the listed columns, in the listed order, of every row.
Unprojected(df, columns) == df
GetItem(df, columns) ==
  DataFrame(columns,
            [i \in 1..Len(df.rows) |->
               [j \in 1..Len(columns) |->
                  df.rows[i][IndexOf(df.columns, columns[j])]]])

Outcome(ret, raised, reads, log) ==
  [ret |-> ret, raised |-> raised, reads |-> reads, log |-> log]

\* DataLoad.load_data: both except clauses log and fall off the end of the
\* function, so the caller gets None and no exception.
load_data(dataset_name) ==
  LET dataset == ConfigGet(dataset_name)
      dataset_path == DataPath(dataset)
  IN IF dataset = None
     THEN Outcome(NoFrame, "", <<>>, "ValueError")
     ELSE IF dataset_path \notin DOMAIN fs
     THEN Outcome(NoFrame, "", <<dataset_path>>, "Erro inesperado")
     ELSE IF ~(Range(columns_to_use) \subseteq Range(fs[dataset_path].columns))
     THEN Outcome(NoFrame, "", <<dataset_path>>, "Erro inesperado")
     ELSE Outcome(GetItem(fs[dataset_path], columns_to_use), "",
                  <<dataset_path>>, "")

Load(dataset_name) ==
  /\ LET o == load_data(dataset_name)
     IN /\ loadName' = dataset_name
        /\ loadRet' = o.ret
        /\ loadRaised' = o.raised
        /\ loadReads' = o.reads
        /\ loadLog' = o.log
  /\ UNCHANGED <<fs, columns_to_use, trainVars>>

\* ---- specifications -----------------------------------------------------
NoLoadYet ==
  /\ loadName = ""
  /\ loadRet = NoFrame
  /\ loadRaised = ""
  /\ loadReads = <<>>
  /\ loadLog = ""

TrainersIdle ==
  /\ versions = <<>>
  /\ alias = 0
  /\ pc = [t \in Trainers |-> "idle"]
  /\ bestp = [t \in Trainers |-> NoParams]
  /\ val = [t \in Trainers |-> NoMetric]
  /\ fetched = [t \in Trainers |-> 0]
  /\ active = [t \in Trainers |-> 0]
  /\ mine = [t \in Trainers |-> 0]
  /\ err = [t \in Trainers |-> ""]
  /\ executed = {}
  /\ lastWriter = 0

\* Sequential use: the store holds the runs of earlier hyperparameter searches.
Init ==
  /\ runs \in SeqsUpTo(HistoricalRuns, MaxHist)
  /\ TrainersIdle
  /\ fs = [p \in {DataPath("train.csv")} |-> DataFrame(<<"a">>, <<>>)]
  /\ columns_to_use = <<"a">>
  /\ NoLoadYet

\* One Trainer process at a time: run() is called, returns or raises, and is
\* called again, in the same process or in a new one.
Next ==
  \E t \in {1} :
    \/ GetBest(t)
    \/ StartRun(t)
    \/ WithBody(t)
    \/ BuildFit(t)
    \/ LogMetric(t)
    \/ LogModel(t)
    \/ GetModel(t)
    \/ SetAlias(t)
    \/ Return(t)
    \/ Restart(t)

Spec == Init /\ [][Next]_vars

\* Two Trainers, one run() each, their steps interleaved in any order.
InitConc ==
  /\ runs \in {<<h>> : h \in HistoricalRuns}
  /\ TrainersIdle
  /\ fs = [p \in {DataPath("train.csv")} |-> DataFrame(<<"a">>, <<>>)]
  /\ columns_to_use = <<"a">>
  /\ NoLoadYet

NextConc == \E t \in Trainers : Step(t)

SpecConc == InitConc /\ [][NextConc]_vars

\* The loader alone, over every small CSV and column list.
InitLoad ==
  /\ runs = <<>>
  /\ TrainersIdle
  /\ \E header \in Headers, present \in {{"train.csv"}, {"train.csv", "test.csv"}} :
       \E rows \in SeqsUpTo([1..Len(header) -> Cells], MaxRows) :
         fs = [p \in {DataPath(f) : f \in present} |-> DataFrame(header, rows)]
  /\ columns_to_use \in ColumnChoices
  /\ NoLoadYet

NextLoad == \E dataset_name \in DatasetNames : Load(dataset_name)

SpecLoad == InitLoad /\ [][NextLoad]_vars

\* ---- claims -------------------------------------------------------------
Eligible(rs) == {i \in 1..Len(rs) : rs[i].metric # NoMetric /\ rs[i].metric < One}
Complete(params) == \A c \in BestParamCols : params[c] # NaN
AllDone == \A t \in Trainers : pc[t] = "done"
LoadedFrom == fs[DataPath(ConfigGet(loadName))]
Loadable ==
  /\ loadName # ""
  /\ ConfigGet(loadName) # None
  /\ DataPath(ConfigGet(loadName)) \in DOMAIN fs
  /\ Range(columns_to_use) \subseteq Range(LoadedFrom.columns)

\* C1: after load_data is called with a name that has no entry in the dataset
\* configuration, the caller has been given a ConfigurationError and no file
\* was read.
C1_UnknownNameSignalled ==
  (loadName # "" /\ ConfigGet(loadName) = None)
    => (loadRaised = "ConfigurationError" /\ loadReads = <<>>)

\* C2: with no run whose valid_roc_auc is below 1, get_best_model signals
\* NoEligibleRunError.
C2_NoEligibleRunSignalled ==
  \A t \in Trainers :
    (pc[t] = "failed" /\ Eligible(runs) = {})
      => (err[t] = "NoEligibleRunError"
          /\ get_best_model(runs).raised = "NoEligibleRunError")

\* What C3 asks of a selection: it is the metric and the hyperparameters of a
\* run that is below 1 and that no other run below 1 exceeds.
SelectsMaximum(rs) ==
  LET r == get_best_model(rs)
  IN /\ r.raised = ""
     /\ r.run_id \in Eligible(rs)
     /\ \A i \in Eligible(rs) : rs[i].metric <= rs[r.run_id].metric
     /\ r.best_roc_auc = rs[r.run_id].metric
     /\ r.df_best_params = rs[r.run_id].params

\* C3 as stated: for every non-empty set of runs, get_best_model returns the
\* metric and hyperparameters of a maximal run among those below 1.
C3_AnyNonEmptyStore ==
  \A t \in Trainers :
    (pc[t] # "idle" /\ runs # <<>>) => SelectsMaximum(runs)

\* C3: whenever the store holds at least one run with metric below 1,
\* get_best_model returns the metric and hyperparameters of a run whose metric
\* is the maximum among the runs below 1, never a run with metric 1, and run()
\* carries those hyperparameters on.
C3_BestRunSelected ==
  /\ Eligible(runs) # {} => SelectsMaximum(runs)
  /\ \A t \in Trainers :
       pc[t] = "start" =>
         \E i \in Eligible(runs) :
           /\ \A j \in Eligible(runs) : runs[j].metric <= runs[i].metric
           /\ bestp[t] = runs[i].params

\* C3 witness: the store's metrics are {0.81, 0.95, 1.0, 0.62}, a run() has
\* just selected, and it holds the hyperparameters of the 0.95 run.
C3_Witness ==
  /\ {runs[i].metric : i \in 1..Len(runs)} \ {NoMetric} = {62, 81, 95, 100}
  /\ get_best_model(runs).best_roc_auc = 95
  /\ \E t \in Trainers :
       pc[t] = "start" /\ bestp[t] = runs[get_best_model(runs).run_id].params

\* C4: the step that completes a run() leaves the alias on the version that
\* this run() registered.
C4_AliasIsJustRegistered ==
  [][\A t \in Trainers :
       (pc[t] = "setalias" /\ pc'[t] = "done") => alias' = mine'[t]]_vars

\* C4 witness: a run() has just completed, the alias is on its version, and
\* that version's metric is worse than the previous version's.
C4_Witness ==
  \E t \in Trainers :
    /\ pc[t] = "done" /\ lastWriter = t
    /\ alias = mine[t] /\ alias > 1
    /\ runs[versions[alias].run_id].metric
         < runs[versions[alias - 1].run_id].metric

\* C5: no string outside the known specification strings is ever executed as
\* code, and no run() gets past parsing with one.
C5_UnknownStringsRejected ==
  /\ executed \subseteq KnownSpecs
  /\ \A t \in Trainers :
       pc[t] \in {"logmetric", "register", "getmodel", "setalias", "done"}
         => \A c \in EvalCols : bestp[t][c] \in KnownSpecs

\* C7: a load of a configured dataset whose file exists and has the configured
\* columns returns exactly those columns and every row of the file, in order.
C7_LoadProjects ==
  Loadable =>
    /\ loadRet.kind = "DataFrame"
    /\ Range(loadRet.columns) = Range(columns_to_use)
    /\ Len(loadRet.rows) = Len(LoadedFrom.rows)
    /\ \A i \in 1..Len(loadRet.rows) : \A j \in 1..Len(loadRet.columns) :
         loadRet.rows[i][j]
           = LoadedFrom.rows[i][IndexOf(LoadedFrom.columns, loadRet.columns[j])]

\* C7 witness: a file of several rows with more columns than configured, in
\* another order, has been loaded.
C7_Witness ==
  /\ Loadable
  /\ loadRet.kind = "DataFrame"
  /\ Len(LoadedFrom.rows) >= 2
  /\ LoadedFrom.rows[1] # LoadedFrom.rows[2]
  /\ columns_to_use = <<"c", "a">>
  /\ LoadedFrom.columns = <<"a", "b", "c">>

\* C8: every metric that run() logs is on a "final_model" run carrying the
\* model_name tag, and a process that is not inside run() has no active run.
C8_MetricInsideScopedRun ==
  /\ \A i \in 1..Len(runs) :
       (runs[i].name # "search" /\ runs[i].metric # NoMetric)
         => (runs[i].name = "final_model" /\ runs[i].tag = model_name)
  /\ \A t \in Trainers : pc[t] \in {"idle", "done", "failed"} => active[t] = 0

\* C9 as stated: once both Trainers have completed, the alias is on the highest
\* version number.
C9_AliasIsNewest == AllDone => alias = Last(versions).version

\* C9: once both Trainers have completed, the alias is on a version that one of
\* the two registered, and not one older than the version registered by the
\* Trainer that set the alias last.
C9_LastWriterWins ==
  AllDone =>
    /\ alias \in {mine[t] : t \in Trainers}
    /\ alias >= mine[lastWriter]

\* C9 witness: both have completed and the alias is not on the newest version.
C9_Witness == AllDone /\ alias # Last(versions).version

\* C10: a run() that has selected its best run holds a complete set of the
\* eleven hyperparameters.
C10_SelectedRunHasParams ==
  \A t \in Trainers : pc[t] = "start" => Complete(bestp[t])

====
